---- MODULE Spec2Model ----
(***************************************************************************)
(* Double pendulum simulation (simulation.py): the DoublePendulum engine   *)
(* (derivs, step, get_pos, perturb) and the animation callbacks (update,   *)
(* on_click) with the bounded trail history.                               *)
(*                                                                         *)
(* Reals are fixed-point integers with SCALE units per 1.0 (1000 = 1.0,    *)
(* 9810 = 9.81, angles in milliradians).  Every product and quotient is    *)
(* truncated toward zero.  np.sin / np.cos are evaluated on a grid of      *)
(* 4 * QuarterTurn points per turn from a table of truncated sines, with   *)
(* pi = PiNum / PiDen.  scipy's odeint is modelled by one explicit Euler   *)
(* step of derivs over [0, dt].  np.random.uniform(low, high) is a         *)
(* nondeterministic choice among both ends and the midpoint of the range.  *)
(***************************************************************************)
EXTENDS Integers, Sequences, FiniteSets, TLC

VARIABLES
    L1, L2, M1, M2, g,   \* DoublePendulum parameters (self.L1 .. self.g)
    state,               \* self.state = <<th1, w1, th2, w2>>
    history_x, history_y,\* module-level trail lists
    line,                \* rod geometry given to line.set_data
    info_text,           \* text of the status label
    ctor,                \* ghost: the arguments the constructor was given
    log,                 \* ghost: the (x2, y2) of every step so far, oldest first
    nUpdates,            \* ghost: number of update calls so far
    nPerturbs,           \* ghost: number of perturb calls so far
    last,                \* ghost: name of the last operation
    arg,                 \* ghost: argument of the last operation
    ret                  \* ghost: value the last operation returned

vars == <<L1, L2, M1, M2, g, state, history_x, history_y, line, info_text,
          ctor, log, nUpdates, nPerturbs, last, arg, ret>>

params == <<L1, L2, M1, M2, g>>

----------------------------------------------------------------------------
(* Bounds of the model *)

\* update is called at most MaxFrames times in a run of the program
MaxFrames == 203
\* at most MaxClicks mouse clicks are delivered in a run of the program
MaxClicks == 1
\* clicks are delivered at frame boundaries that are multiples of ClickPeriod
ClickPeriod == 20
\* a test of the engine calls step at most MaxSteps times
MaxSteps == 2
\* a test of the engine calls perturb at most MaxPerturbs times
MaxPerturbs == 2
\* step is not taken from angular velocities beyond MaxOmega (30 rad/s)
MaxOmega == 30000

----------------------------------------------------------------------------
(* Fixed-point arithmetic *)

SCALE == 1000

Abs(a) == IF a >= 0 THEN a ELSE -a

Min(a, b) == IF a <= b THEN a ELSE b

\* quotient truncated toward zero, b > 0
TDiv(a, b) == IF a >= 0 THEN a \div b ELSE -((-a) \div b)

\* a * b of two fixed-point numbers
Mul(a, b) == TDiv(a * b, SCALE)

\* a / b of two fixed-point numbers, b # 0
FDiv(a, b) ==
    LET s == IF (a >= 0) = (b > 0) THEN 1 ELSE -1
        n == Abs(a)
        d == Abs(b)
    IN  s * ((n \div d) * SCALE + ((n % d) * SCALE) \div d)

PiNum == 22
PiDen == 7
np_pi == TDiv(PiNum * SCALE, PiDen)

\* 1000 * sin(k * pi / 22), k = 0 .. 11, truncated
SinTable == <<0, 142, 281, 415, 540, 654, 755, 841, 909, 959, 989, 1000>>
QuarterTurn == Len(SinTable) - 1

\* the grid point nearest to the angle a >= 0
GridIndex(a) ==
    (2 * a * 2 * QuarterTurn * PiDen + PiNum * SCALE) \div (2 * PiNum * SCALE)

\* sine of the grid point k >= 0
GridSin(k) ==
    LET q == k % (4 * QuarterTurn)
    IN  IF q <= QuarterTurn THEN SinTable[q + 1]
        ELSE IF q <= 2 * QuarterTurn THEN SinTable[2 * QuarterTurn - q + 1]
        ELSE IF q <= 3 * QuarterTurn THEN -SinTable[q - 2 * QuarterTurn + 1]
        ELSE -SinTable[4 * QuarterTurn - q + 1]

np_sin(a) == IF a >= 0 THEN GridSin(GridIndex(a)) ELSE -GridSin(GridIndex(-a))

np_cos(a) == GridSin(GridIndex(Abs(a)) + QuarterTurn)

\* np.random.uniform(low, high): the values the draw is sampled at
uniform(low, high) == {low, low + TDiv(high - low, 2), high}

----------------------------------------------------------------------------
(* DoublePendulum *)

\* den1 of derivs
den1(y) ==
    LET cd == np_cos(y[3] - y[1])
    IN  Mul(M1 + M2, L1) - Mul(Mul(Mul(M2, L1), cd), cd)

\* dydx[1] of derivs, the rate of w1
dydx1(y) ==
    LET delta == y[3] - y[1]
        sd == np_sin(delta)
        cd == np_cos(delta)
    IN  FDiv(Mul(Mul(Mul(Mul(M2, L1), Mul(y[2], y[2])), sd), cd)
             + Mul(Mul(Mul(M2, g), np_sin(y[3])), cd)
             + Mul(Mul(Mul(M2, L2), Mul(y[4], y[4])), sd)
             - Mul(Mul(M1 + M2, g), np_sin(y[1])),
             den1(y))

\* den2 of derivs
den2(y) == Mul(FDiv(L2, L1), den1(y))

\* dydx[3] of derivs, the rate of w2
dydx3(y) ==
    LET delta == y[3] - y[1]
        sd == np_sin(delta)
        cd == np_cos(delta)
    IN  FDiv(- Mul(Mul(Mul(Mul(M2, L2), Mul(y[4], y[4])), sd), cd)
             + Mul(Mul(Mul(M1 + M2, g), np_sin(y[1])), cd)
             - Mul(Mul(Mul(M1 + M2, L1), Mul(y[2], y[2])), sd)
             - Mul(Mul(M1 + M2, g), np_sin(y[3])),
             den2(y))

\* derivs with dydx = state in place of dydx = np.zeros_like(state): the rates
\* are written, in the order of the assignments, into the array passed
derivs_inplace(y, t) ==
    LET s1 == [y EXCEPT ![1] = y[2]]
        s2 == [s1 EXCEPT ![2] = dydx1(s1)]
        s3 == [s2 EXCEPT ![3] = s2[4]]
        s4 == [s3 EXCEPT ![4] = dydx3(s3)]
    IN  [dydx |-> s4, y |-> s4]

\* DoublePendulum.derivs(state, t) with the parameters of self: dydx is the
\* array returned, y the content of the array passed as state when the call
\* returns (dydx = np.zeros_like(state) is a fresh array, state is only read)
derivs(y, t) ==
    [dydx |-> <<y[2], dydx1(y), y[4], dydx3(y)>>, y |-> y]

\* odeint(self.derivs, y0, [0, dt])[1]
odeint(y0, dt) ==
    LET f == derivs(y0, 0).dydx
    IN  [i \in 1..4 |-> y0[i] + Mul(f[i], dt)]

\* get_pos with the sine of th2 forgotten in x2
get_pos_nosin(st) ==
    LET th1 == st[1]
        th2 == st[3]
        x1 == Mul(L1, np_sin(th1))
        y1 == -Mul(L1, np_cos(th1))
        x2 == x1 + Mul(L2, th2)
        y2 == y1 - Mul(L2, np_cos(th2))
    IN  <<x1, y1, x2, y2>>

\* get_pos with the angles measured from the horizontal (sin and cos exchanged)
get_pos_swapped(st) ==
    LET th1 == st[1]
        th2 == st[3]
        x1 == Mul(L1, np_cos(th1))
        y1 == -Mul(L1, np_sin(th1))
        x2 == x1 + Mul(L2, np_cos(th2))
        y2 == y1 - Mul(L2, np_sin(th2))
    IN  <<x1, y1, x2, y2>>

\* DoublePendulum.get_pos() on self.state = st
get_pos(st) ==
    LET th1 == st[1]
        th2 == st[3]
        x1 == Mul(L1, np_sin(th1))
        y1 == -Mul(L1, np_cos(th1))
        x2 == x1 + Mul(L2, np_sin(th2))
        y2 == y1 - Mul(L2, np_cos(th2))
    IN  <<x1, y1, x2, y2>>

\* DoublePendulum.step(dt)
step(dt) ==
    /\ Abs(state[2]) <= MaxOmega
    /\ Abs(state[4]) <= MaxOmega
    /\ state' = odeint(state, dt)
    /\ ret' = get_pos(state')
    /\ log' = Append(log, <<ret'[3], ret'[4]>>)
    /\ UNCHANGED params

\* perturb adding the kicks to state[0] and state[2], the angles
perturb_angles(strength) ==
    /\ \E k1 \in uniform(-strength, strength) :
          \E k2 \in uniform(-strength, strength) :
             state' = [state EXCEPT ![1] = @ + k1, ![3] = @ + k2]
    /\ nPerturbs' = nPerturbs + 1
    /\ UNCHANGED params

\* perturb drawing the kicks from a distribution of spread strength that is
\* not confined to [-strength, strength] (np.random.normal(0, strength))
perturb_normal(strength) ==
    /\ \E k1 \in uniform(-2 * strength, 2 * strength) :
          \E k2 \in uniform(-2 * strength, 2 * strength) :
             state' = [state EXCEPT ![2] = @ + k1, ![4] = @ + k2]
    /\ nPerturbs' = nPerturbs + 1
    /\ UNCHANGED params

\* perturb injecting the energy through the parameters as well: the kick of
\* the second link is also added to self.M2
perturb_mass(strength) ==
    /\ \E k1 \in uniform(-strength, strength) :
          \E k2 \in uniform(-strength, strength) :
             /\ state' = [state EXCEPT ![2] = @ + k1, ![4] = @ + k2]
             /\ M2' = M2 + k2
    /\ nPerturbs' = nPerturbs + 1
    /\ UNCHANGED <<L1, L2, M1, g>>

\* perturb keeping the velocities within 6 rad/s (np.clip after the kick)
perturb_clipped(strength) ==
    /\ \E k1 \in uniform(-strength, strength) :
          \E k2 \in uniform(-strength, strength) :
             LET clip(w) == IF w > 6 * SCALE THEN 6 * SCALE
                            ELSE IF w < -6 * SCALE THEN -6 * SCALE ELSE w
             IN  state' = [state EXCEPT ![2] = clip(@ + k1), ![4] = clip(@ + k2)]
    /\ nPerturbs' = nPerturbs + 1
    /\ UNCHANGED params

\* DoublePendulum.perturb(strength)
perturb(strength) ==
    /\ \E k1 \in uniform(-strength, strength) :
          \E k2 \in uniform(-strength, strength) :
             state' = [state EXCEPT ![2] = @ + k1, ![4] = @ + k2]
    /\ nPerturbs' = nPerturbs + 1
    /\ UNCHANGED params

\* np.array([np.pi/1.1, 0, np.pi/1.1, 0], dtype=float)
initial_state == <<TDiv(np_pi * 10, 11), 0, TDiv(np_pi * 10, 11), 0>>

\* DoublePendulum.__init__(L1, L2, M1, M2)
init(a) ==
    /\ ctor = a
    /\ L1 = a[1]
    /\ L2 = a[2]
    /\ M1 = a[3]
    /\ M2 = a[4]
    /\ g = 9810
    /\ state = initial_state

----------------------------------------------------------------------------
(* The program: module-level globals and the animation callbacks *)

dt == 40
max_history == 200

\* sim = DoublePendulum(L1=1.0, L2=1.0, M1=1.0, M2=1.0) and the other globals
Init ==
    /\ init(<<SCALE, SCALE, SCALE, SCALE>>)
    /\ history_x = <<>>
    /\ history_y = <<>>
    /\ line = <<>>
    /\ info_text = "CLICK anywhere to hit the pendulum!"
    /\ log = <<>>
    /\ nUpdates = 0
    /\ nPerturbs = 0
    /\ last = "init"
    /\ arg = 0
    /\ ret = <<>>

\* update trimming as soon as the trail is full (>= for >)
update_ge ==
    /\ nUpdates < MaxFrames
    /\ step(dt)
    /\ line' = ret'
    /\ LET hx == Append(history_x, ret'[3])
           hy == Append(history_y, ret'[4])
       IN  IF Len(hx) >= max_history
           THEN /\ history_x' = Tail(hx)
                /\ history_y' = Tail(hy)
           ELSE /\ history_x' = hx
                /\ history_y' = hy
    /\ nUpdates' = nUpdates + 1
    /\ last' = "update"
    /\ arg' = nUpdates
    /\ UNCHANGED <<info_text, ctor, nPerturbs>>

\* update evicting with pop() for pop(0): the newest point goes
update_pop_last ==
    /\ nUpdates < MaxFrames
    /\ step(dt)
    /\ line' = ret'
    /\ LET hx == Append(history_x, ret'[3])
           hy == Append(history_y, ret'[4])
       IN  IF Len(hx) > max_history
           THEN /\ history_x' = SubSeq(hx, 1, Len(hx) - 1)
                /\ history_y' = SubSeq(hy, 1, Len(hy) - 1)
           ELSE /\ history_x' = hx
                /\ history_y' = hy
    /\ nUpdates' = nUpdates + 1
    /\ last' = "update"
    /\ arg' = nUpdates
    /\ UNCHANGED <<info_text, ctor, nPerturbs>>

\* update(frame)
update ==
    /\ nUpdates < MaxFrames
    /\ step(dt)
    /\ line' = ret'
    /\ LET hx == Append(history_x, ret'[3])
           hy == Append(history_y, ret'[4])
       IN  IF Len(hx) > max_history
           THEN /\ history_x' = Tail(hx)
                /\ history_y' = Tail(hy)
           ELSE /\ history_x' = hx
                /\ history_y' = hy
    /\ nUpdates' = nUpdates + 1
    /\ last' = "update"
    /\ arg' = nUpdates
    /\ UNCHANGED <<info_text, ctor, nPerturbs>>

\* on_click(event), event.inaxes == ax being inaxes
on_click(inaxes) ==
    /\ nPerturbs < MaxClicks
    /\ nUpdates % ClickPeriod = 0
    /\ IF inaxes
       THEN /\ perturb(4 * SCALE)
            /\ info_text' = "INTERFERENCE DETECTED"
       ELSE UNCHANGED <<params, state, nPerturbs, info_text>>
    /\ last' = "on_click"
    /\ arg' = inaxes
    /\ ret' = <<>>
    /\ UNCHANGED <<history_x, history_y, line, ctor, log, nUpdates>>

Next ==
    \/ update
    \/ \E inaxes \in BOOLEAN : on_click(inaxes)

Spec == Init /\ [][Next]_vars

----------------------------------------------------------------------------
(* The engine alone: a DoublePendulum built with any of the parameter       *)
(* values of ParamValues and driven through its methods                     *)

\* values a length or a mass is constructed with (0.5 and 1.0)
ParamValues == {SCALE \div 2, SCALE}

\* time steps step is called with
DtValues == {dt \div 2, dt}

\* strengths perturb is called with (0 and on_click's 4.0)
Strengths == {0, 4 * SCALE}

\* constructor arguments <<L1, L2, M1, M2>> of the engines that are driven
\* through sequences of calls: the defaults, and unequal lengths and masses
CtorArgs ==
    { <<SCALE, SCALE, SCALE, SCALE>>,
      <<SCALE \div 2, SCALE, SCALE, SCALE \div 2>>,
      <<SCALE, SCALE \div 2, SCALE \div 2, SCALE>> }

\* state vectors derivs is handed
InputStates ==
    { <<0, 0, 0, 0>>,
      <<0, 1500, 0, -700>>,
      <<TDiv(np_pi, 2), 0, TDiv(np_pi, 2), 0>>,
      <<-524, 300, 7000, -2500>> }

InitEngine ==
    /\ \E a \in CtorArgs : init(a)
    /\ history_x = <<>>
    /\ history_y = <<>>
    /\ line = <<>>
    /\ info_text = ""
    /\ log = <<>>
    /\ nUpdates = 0
    /\ nPerturbs = 0
    /\ last = "init"
    /\ arg = 0
    /\ ret = <<>>

program == <<history_x, history_y, line, info_text, nUpdates>>

\* a call of sim.step(d)
Step(d) ==
    /\ Len(log) < MaxSteps
    /\ step(d)
    /\ last' = "step"
    /\ arg' = d
    /\ UNCHANGED <<program, ctor, nPerturbs>>

\* get_pos converting self.state in place: the coordinates of the first
\* joint overwrite th1 and w1
GetPos_inplace ==
    /\ ret' = get_pos(state)
    /\ state' = [state EXCEPT ![1] = ret'[1], ![2] = ret'[2]]
    /\ last' = "get_pos"
    /\ arg' = 0
    /\ UNCHANGED <<params, program, ctor, log, nPerturbs>>

\* a call of sim.get_pos()
GetPos ==
    /\ ret' = get_pos(state)
    /\ last' = "get_pos"
    /\ arg' = 0
    /\ UNCHANGED <<params, state, program, ctor, log, nPerturbs>>

\* a call of sim.perturb(s)
Perturb(s) ==
    /\ nPerturbs < MaxPerturbs
    /\ perturb(s)
    /\ last' = "perturb"
    /\ arg' = s
    /\ ret' = <<>>
    /\ UNCHANGED <<program, ctor, log>>

\* a call of sim.derivs(y, 0); y = state is the call sim.derivs(sim.state, 0),
\* which passes the engine's own array
Derivs(y) ==
    LET r == derivs(y, 0)
    IN  /\ ret' = r.dydx
        /\ arg' = [before |-> y, after |-> r.y]
        /\ state' = IF y = state THEN r.y ELSE state
        /\ last' = "derivs"
        /\ UNCHANGED <<params, program, ctor, log, nPerturbs>>

NextEngine ==
    \/ \E d \in DtValues : Step(d)
    \/ GetPos
    \/ \E s \in Strengths : Perturb(s)
    \/ \E y \in {state, <<0, 1500, 0, -700>>} : Derivs(y)

SpecEngine == InitEngine /\ [][NextEngine]_vars

----------------------------------------------------------------------------
(* The pure functions: get_pos and derivs applied to given state vectors    *)

InitPure ==
    /\ \E a \in ParamValues \X ParamValues \X ParamValues \X ParamValues :
          /\ ctor = a
          /\ L1 = a[1]
          /\ L2 = a[2]
          /\ M1 = a[3]
          /\ M2 = a[4]
          /\ g = 9810
    /\ state \in InputStates
    /\ history_x = <<>>
    /\ history_y = <<>>
    /\ line = <<>>
    /\ info_text = ""
    /\ log = <<>>
    /\ nUpdates = 0
    /\ nPerturbs = 0
    /\ last = "init"
    /\ arg = 0
    /\ ret = <<>>

NextPure ==
    \/ GetPos
    \/ \E y \in InputStates \cup {state} : Derivs(y)

SpecPure == InitPure /\ [][NextPure]_vars

----------------------------------------------------------------------------
(* Properties *)

\* C1: after n calls of update, with clicks in between, history_x and
\* history_y each hold exactly min(n, 200) points.
C1_TrailLength ==
    /\ Len(history_x) = Min(nUpdates, max_history)
    /\ Len(history_y) = Min(nUpdates, max_history)

\* more than 200 updates and a click have happened and the trail holds 200
C1_Witness ==
    /\ nUpdates > max_history
    /\ nPerturbs > 0
    /\ Len(history_x) = max_history
    /\ Len(history_y) = max_history

\* C2: one call of perturb(s) changes w1 by at most s and w2 by at most s in
\* magnitude; perturb(0) leaves the state unchanged.
C2_KickBounded ==
    [][last' = "perturb" =>
          /\ Abs(state'[2] - state[2]) <= arg'
          /\ Abs(state'[4] - state[4]) <= arg'
          /\ (arg' = 0 => state' = state)]_vars

\* a perturb(4.0) after a step has kicked w1 and w2 by the full strength, in
\* opposite directions
C2_Witness ==
    /\ last = "perturb"
    /\ arg = 4 * SCALE
    /\ nPerturbs = 1
    /\ Len(log) = 1
    /\ \E d \in DtValues :
          LET before == odeint(initial_state, d)
          IN  /\ state[2] = before[2] + arg
              /\ state[4] = before[4] - arg

\* C3: a click changes only w1 and w2 (and the status label): th1, th2, the
\* parameters and the trail are as before, and no step is added or dropped.
C3_ClickFrame ==
    [][last' = "on_click" =>
          /\ state'[1] = state[1]
          /\ state'[3] = state[3]
          /\ params' = params
          /\ history_x' = history_x
          /\ history_y' = history_y
          /\ log' = log
          /\ nUpdates' = nUpdates]_vars

\* the state after n frames without a click
Undisturbed(n) ==
    LET RECURSIVE run(_)
        run(i) == IF i = 0 THEN initial_state ELSE odeint(run(i - 1), dt)
    IN  run(n)

\* a click inside the axes between two frames has kicked w1 up and w2 down by
\* the full strength and left the angles and the trail of the frames so far
C3_Witness ==
    /\ last = "on_click"
    /\ arg = TRUE
    /\ nUpdates = ClickPeriod
    /\ Len(history_x) = ClickPeriod
    /\ info_text = "INTERFERENCE DETECTED"
    /\ LET free == Undisturbed(ClickPeriod)
       IN  state = <<free[1], free[2] + 4 * SCALE, free[3], free[4] - 4 * SCALE>>

\* C4: get_pos leaves the state vector and the parameters unchanged, and a
\* second call right after a first returns the same coordinates.
C4_GetPosPure ==
    [][last' = "get_pos" =>
          /\ state' = state
          /\ params' = params
          /\ (last = "get_pos" => ret' = ret)]_vars

\* get_pos has returned the coordinates of a state reached by step and perturb
C4_Witness ==
    /\ last = "get_pos"
    /\ Len(log) > 0
    /\ nPerturbs > 0
    /\ state[2] # 0
    /\ ret = get_pos(state)

\* C5: after any sequence of step, get_pos, perturb and derivs calls L1, L2,
\* M1, M2 are the constructor's arguments and g is 9.81.
C5_ParamsImmutable ==
    /\ <<L1, L2, M1, M2>> = ctor
    /\ g = 9810

\* derivs is called after steps and perturbs on an engine of unequal masses
C5_Witness ==
    /\ last = "derivs"
    /\ Len(log) > 1
    /\ nPerturbs > 1
    /\ ctor[3] # ctor[4]

C7_DerivsRates ==
    last = "derivs" =>
       /\ ret[1] = arg.before[2]
       /\ ret[3] = arg.before[4]
       /\ arg.after = arg.before

\* derivs was applied to a moving state with nonzero accelerations
C7_Witness ==
    /\ last = "derivs"
    /\ arg.before[2] # 0
    /\ arg.before[4] # 0
    /\ ret[1] = arg.before[2]
    /\ ret[2] # 0
    /\ ret[4] # 0
    /\ L1 # L2

\* C8: with th1 = 0 and th2 = 0 get_pos returns (0, -L1, 0, -(L1 + L2)),
\* whatever w1 and w2 are.
C8_RestPosition ==
    (last = "get_pos" /\ state[1] = 0 /\ state[3] = 0) =>
       ret = <<0, -L1, 0, -(L1 + L2)>>

\* get_pos was called on a hanging pendulum in motion with unequal lengths
C8_Witness ==
    /\ last = "get_pos"
    /\ state[1] = 0
    /\ state[3] = 0
    /\ state[2] # 0
    /\ state[4] # 0
    /\ L1 # L2
    /\ ret = <<0, -L1, 0, -(L1 + L2)>>

\* C9: each update performs exactly one step, and the trail holds, oldest
\* first, the end-effector positions of the last min(n, 200) steps.
C9_TrailFifo ==
    LET n == nUpdates
        k == Min(n, max_history)
    IN  /\ Len(log) = n
        /\ history_x = [i \in 1..k |-> log[n - k + i][1]]
        /\ history_y = [i \in 1..k |-> log[n - k + i][2]]

\* points have been evicted, and the first one evicted differs from the
\* oldest one kept
C9_Witness ==
    /\ nUpdates > max_history + 1
    /\ Len(history_x) = max_history
    /\ log[1] # <<history_x[1], history_y[1]>>
    /\ log[nUpdates] = <<history_x[max_history], history_y[max_history]>>

====
